---- MODULE Spec2Model ----
(***************************************************************************)
(* Model of scale_animation_fix.py: the operator                           *)
(* FixAnimationForScaledModelsOperator.execute, the Scene.scale_factor     *)
(* property edited from the sidebar panel, and the part of the host scene  *)
(* the operator reads and writes (scene objects, the armature's animation  *)
(* data, the action's F-curves, the pose, the mode and the current frame). *)
(*                                                                         *)
(* Numbers.  Frames are floats in the host; a frame is modelled by its     *)
(* tick, the frame multiplied by two, so that tick 3 is frame 1.5 and the  *)
(* whole-number frames are the even ticks.  Keyframe values and the scale  *)
(* factor are integers (all of them inside the property's range            *)
(* [0.1, 100]); float rounding is not modelled.                            *)
(*                                                                         *)
(* Host.  scene.frame_set(f) sets the current frame and re-evaluates every *)
(* animated pose channel; keyframe_insert replaces the keyframe on the     *)
(* given frame or inserts a new one in frame order, creating the F-curve   *)
(* when it is missing; F-curves keep their keyframes sorted by frame, one  *)
(* per frame.  action.frame_range is the range the host computes from the  *)
(* action's keyframes.  mode_set and frame_set are taken to succeed.       *)
(*                                                                         *)
(* execute is one handler; it is split at its statements (pc) so that the  *)
(* order of its steps is part of the state.  pre and writes are history    *)
(* variables: the scene as execute found it, and the keyframe writes made. *)
(***************************************************************************)
EXTENDS Integers, Sequences, FiniteSets, TLC

\* ---------------------------------------------------------------- bounds
\* the last tick a keyframe may lie on (ticks 0..MaxTick)
MaxTick == 2
\* keyframe values and posed locations are 0..MaxVal
MaxVal == 1
\* the keyframes of the hips Y and Root Y channels together
MaxKeys == 3
\* scale factors are 1..MaxScale
MaxScale == 2

Ticks == 0..MaxTick
Vals == 0..MaxVal
Scales == 1..MaxScale

\* ------------------------------------------------------- frames and ticks
\* int(x) of a frame given by its tick: truncation toward zero
IntFrame(t) == IF t >= 0 THEN t \div 2 ELSE -((-t) \div 2)

\* the tick of the whole-number frame f
TickOf(f) == 2 * f

\* -------------------------------------------------------------- F-curves
\* the channels of the file: data path "pose.bones[bone].location", array
\* index, and the action that owns the curve
Channel(a, b, i) == [action |-> a, bone |-> b, index |-> i]

RootY == Channel("base", "Root", 1)
HipsY == Channel("base", "hips", 1)
RootX == Channel("base", "Root", 0)
HipsZ == Channel("base", "hips", 2)
SpineY == Channel("base", "spine", 1)
OtherRootY == Channel("other", "Root", 1)

Channels == {RootY, HipsY, RootX, HipsZ, SpineY, OtherRootY}

KeyframePoint(t, v) == [co0 |-> t, co1 |-> v]

\* fcurves.find(...) returning None
NoCurve == [exists |-> FALSE, kps |-> <<>>]

FCurve(kps) == [exists |-> TRUE, kps |-> kps]

\* strictly increasing tick sequences of at most MaxKeys ticks
SortedTicks ==
    {q \in UNION {[1..n -> Ticks] : n \in 0..MaxKeys} :
        \A i \in 1..(Len(q) - 1) : q[i] < q[i + 1]}

CurveChoices ==
    {NoCurve} \cup
    UNION {{FCurve([i \in 1..Len(q) |-> KeyframePoint(q[i], v[i])]) :
                v \in [1..Len(q) -> Vals]} : q \in SortedTicks}

\* the content of the channels the operator is not about
FixedCurve == FCurve(<<KeyframePoint(MaxTick, 1)>>)

\* action.frame_range: the combined range of the keyframes of the action's
\* curves, one frame long when they all lie on one frame, (0, 1) without any
ActionFrameRange(fc) ==
    LET ts == UNION {{fc[c].kps[i].co0 : i \in 1..Len(fc[c].kps)} :
                        c \in {d \in Channels : d.action = "base"}}
        lo == CHOOSE t \in ts : \A u \in ts : t <= u
        hi == CHOOSE t \in ts : \A u \in ts : u <= t
    IN  IF ts = {} THEN <<0, TickOf(1)>>
        ELSE IF lo = hi THEN <<lo, lo + TickOf(1)>>
        ELSE <<lo, hi>>

\* action.fcurves.find(data_path, index) on the '_base_' armature's action
Find(fc, bone, index) == fc[Channel("base", bone, index)]

\* any(kp.co[0] == frame for kp in keyframe_points)
HasKeyOn(curve, f) == \E i \in 1..Len(curve.kps) : curve.kps[i].co0 = TickOf(f)

\* F-curve evaluation on a whole frame (constant interpolation); cur is the
\* value the property keeps when the curve has no keyframe
Evaluate(curve, f, cur) ==
    LET n == Len(curve.kps)
        before == {i \in 1..n : curve.kps[i].co0 <= TickOf(f)}
    IN  IF n = 0 THEN cur
        ELSE IF before = {} THEN curve.kps[1].co1
        ELSE curve.kps[CHOOSE i \in before : \A j \in before : j <= i].co1

\* a keyframe_insert that never replaces: the point is added beside the old one
KeyframeInsertAlways(curve, t, v) ==
    LET kps == curve.kps
        n == Len(kps)
        k == Cardinality({i \in 1..n : kps[i].co0 < t})
    IN  FCurve(SubSeq(kps, 1, k) \o <<KeyframePoint(t, v)>> \o SubSeq(kps, k + 1, n))

\* keyframe_insert(data_path="location", index=1, frame=t) with value v
KeyframeInsert(curve, t, v) ==
    LET kps == curve.kps
        n == Len(kps)
        at == {i \in 1..n : kps[i].co0 = t}
        lower == {i \in 1..n : kps[i].co0 < t}
        k == Cardinality(lower)
    IN  IF at # {}
        THEN FCurve([i \in 1..n |-> IF i \in at THEN KeyframePoint(t, v) ELSE kps[i]])
        ELSE FCurve(SubSeq(kps, 1, k) \o <<KeyframePoint(t, v)>> \o SubSeq(kps, k + 1, n))

\* ------------------------------------------------------------ the scene
Object(t, n) == [type |-> t, name |-> n]

\* scene.objects, in iteration order (object names are unique in a file)
SceneChoices ==
    { <<>>,
      <<Object("MESH", "_base_")>>,
      <<Object("ARMATURE", "Armature"), Object("MESH", "Cube")>>,
      <<Object("MESH", "Cube"), Object("ARMATURE", "Armature"), Object("ARMATURE", "_base_")>> }

\* a search that forgets the type test of line 33
FindArmatureAnyType(objs) ==
    LET hits == {i \in 1..Len(objs) : objs[i].name = "_base_"}
    IN  IF hits = {} THEN 0 ELSE CHOOSE i \in hits : \A j \in hits : i <= j

\* lines 31-35: index of the first object that is the '_base_' armature, 0 for None
FindArmature(objs) ==
    LET hits == {i \in 1..Len(objs) : objs[i].type = "ARMATURE" /\ objs[i].name = "_base_"}
    IN  IF hits = {} THEN 0 ELSE CHOOSE i \in hits : \A j \in hits : i <= j

\* line 44: anim_data is None or anim_data.action is None
NoAnimation(ad) == ad = "None" \/ ad = "NoAction"

\* an offset that falls back on the posed location when the channel has no
\* keyframe on the first frame
HipsYOffsetPoseFallback(bs, curve, poseY, first) ==
    IF "hips" \in bs
    THEN LET hits == {i \in 1..Len(curve.kps) : curve.kps[i].co0 = TickOf(first)}
         IN  IF hits = {} THEN -poseY
             ELSE -curve.kps[CHOOSE i \in hits : \A j \in hits : i <= j].co1
    ELSE 0

\* an offset read from the channel without the test of line 60
HipsYOffsetNoBoneTest(bs, curve, poseY, first) ==
    IF curve.exists
    THEN LET hits == {i \in 1..Len(curve.kps) : curve.kps[i].co0 = TickOf(first)}
         IN  IF hits = {} THEN 0
             ELSE -curve.kps[CHOOSE i \in hits : \A j \in hits : i <= j].co1
    ELSE IF "hips" \in bs THEN -poseY ELSE 0

\* lines 56-69: the inverted hips Y position in the first frame
HipsYOffset(bs, curve, poseY, first) ==
    IF "hips" \in bs
    THEN IF curve.exists
         THEN LET hits == {i \in 1..Len(curve.kps) : curve.kps[i].co0 = TickOf(first)}
              IN  IF hits = {} THEN 0
                  ELSE -curve.kps[CHOOSE i \in hits : \A j \in hits : i <= j].co1
         ELSE -poseY
    ELSE 0

\* line 72
ScaledHipsOffset(off, s) == off * s

\* a translation by the scaled hips offset alone
RootTranslateOffsetOnly(y, s, scaled) == y + scaled

\* line 84: root_bone.location.y += scale_factor + scaled_hips_offset
RootTranslate(y, s, scaled) == y + s + scaled

\* a keyframe scaled twice
HipsScaleTwice(v, s) == v * s * s

\* a keyframe translated instead of scaled
HipsScaleAdd(v, s) == v + s

\* line 94: keyframe.co[1] *= scale_factor
HipsScale(v, s) == v * s

\* an order that rewrites the hips channel before the offset is read
NextPcHipsFirst(p) ==
    CASE p = "find" -> "anim"
      [] p = "anim" -> "mode"
      [] p = "mode" -> "hips"
      [] p = "hips" -> "offset"
      [] p = "offset" -> "root"
      [] p = "root" -> "report"
      [] p = "report" -> "done"

\* an order that switches to Pose Mode before the animation data is checked
NextPcModeFirst(p) ==
    CASE p = "find" -> "mode"
      [] p = "mode" -> "anim"
      [] p = "anim" -> "offset"
      [] p = "offset" -> "root"
      [] p = "root" -> "hips"
      [] p = "hips" -> "report"
      [] p = "report" -> "done"

\* the order of the steps of execute
NextPc(p) ==
    CASE p = "find" -> "anim"
      [] p = "anim" -> "mode"
      [] p = "mode" -> "offset"
      [] p = "offset" -> "root"
      [] p = "root" -> "hips"
      [] p = "hips" -> "report"
      [] p = "report" -> "done"

\* ---------------------------------------------------------------- state
VARIABLES
    objects,            \* bpy.context.scene.objects
    animation_data,     \* of the '_base_' armature: "None", "NoAction", "Action"
    bones,              \* armature.pose.bones (names)
    fcurves,            \* channel -> F-curve
    frame_range,        \* action.frame_range, in ticks
    pose,               \* location.y of the pose bones "hips" and "Root"
    scale_factor,       \* context.scene.scale_factor
    mode,               \* bpy.context.mode
    frame_current,      \* scene.frame_current
    pc,                 \* position in execute
    armature,           \* local: index in objects, 0 for None
    hips_y_offset,      \* local
    scaled_hips_offset, \* local
    frame,              \* local: loop variable of line 79
    ki,                 \* local: position of the loop of line 93
    reports,            \* self.report(...) calls, in order
    result,             \* the returned set's member, "" while running
    pre,                \* the scene as it was when execute was entered
    writes              \* the keyframe writes made by the run, in order

vars == <<objects, animation_data, bones, fcurves, frame_range, pose, scale_factor,
          mode, frame_current, pc, armature, hips_y_offset, scaled_hips_offset,
          frame, ki, reports, result, pre, writes>>

scene == <<objects, animation_data, bones, fcurves, frame_range, pose, scale_factor,
           mode, frame_current>>

Snapshot == [fcurves |-> fcurves, pose |-> pose, mode |-> mode,
             frame_current |-> frame_current, scale_factor |-> scale_factor]

\* scene.frame_set(f): the pose follows the curves of the bones that exist
FrameSetPose(fc, bs, p, f) ==
    [b \in {"hips", "Root"} |->
        IF b \in bs /\ Find(fc, b, 1).exists THEN Evaluate(Find(fc, b, 1), f, p[b]) ELSE p[b]]

Init ==
    /\ objects \in SceneChoices
    /\ IF FindArmature(objects) = 0
       THEN /\ animation_data = "None"
            /\ bones = {}
       ELSE /\ animation_data \in {"None", "NoAction", "Action"}
            /\ bones \in SUBSET {"hips", "Root"}
    /\ IF animation_data = "Action"
       THEN /\ \E h \in CurveChoices, r \in CurveChoices :
                 /\ Len(h.kps) + Len(r.kps) <= MaxKeys
                 /\ fcurves = [c \in Channels |->
                                 IF c = HipsY THEN h ELSE IF c = RootY THEN r ELSE FixedCurve]
            /\ frame_range = ActionFrameRange(fcurves)
       ELSE /\ fcurves = [c \in Channels |->
                              IF c.action = "base" THEN NoCurve ELSE FixedCurve]
            /\ frame_range = ActionFrameRange(fcurves)
    /\ frame_current = 0
    /\ \E p \in [{"hips", "Root"} -> Vals] :
          /\ \A b \in {"hips", "Root"} :
                (b \notin bones \/ Find(fcurves, b, 1).exists) => p[b] = 0
          /\ pose = FrameSetPose(fcurves, bones, p, frame_current)
    /\ scale_factor = 1
    /\ mode \in {"OBJECT", "POSE"}
    /\ pc = "idle"
    /\ armature = 0
    /\ hips_y_offset = 0
    /\ scaled_hips_offset = 0
    /\ frame = 0
    /\ ki = 1
    /\ reports = <<>>
    /\ result = ""
    /\ writes = <<>>
    /\ pre = Snapshot

\* the panel's scale_factor field (line 114)
SetScaleFactor ==
    /\ pc = "idle"
    /\ \E s \in Scales : s # scale_factor /\ scale_factor' = s
    /\ UNCHANGED <<objects, animation_data, bones, fcurves, frame_range, pose, mode,
                   frame_current, pc, armature, hips_y_offset, scaled_hips_offset,
                   frame, ki, reports, result, writes>>
    /\ pre' = [pre EXCEPT !.scale_factor = scale_factor']

Cancel(msg) ==
    /\ reports' = Append(reports, [level |-> "ERROR", msg |-> msg])
    /\ result' = "CANCELLED"
    /\ pc' = "done"

\* lines 30-39
ExecuteFind ==
    /\ pc = "idle"
    /\ pre' = Snapshot
    /\ armature' = FindArmature(objects)
    /\ IF armature' = 0
       THEN Cancel("No armature named '_base_' found.")
       ELSE /\ pc' = NextPc("find")
            /\ UNCHANGED <<reports, result>>
    /\ UNCHANGED <<scene, hips_y_offset, scaled_hips_offset, frame, ki, writes>>

\* lines 41-46
ExecuteAnim ==
    /\ pc = "anim"
    /\ IF NoAnimation(animation_data)
       THEN Cancel("No animation data found.")
       ELSE /\ pc' = NextPc("anim")
            /\ UNCHANGED <<reports, result>>
    /\ UNCHANGED <<scene, armature, hips_y_offset, scaled_hips_offset, frame, ki, pre, writes>>

\* lines 52-54
ExecuteMode ==
    /\ pc = "mode"
    /\ mode' = IF mode # "POSE" THEN "POSE" ELSE mode
    /\ pc' = NextPc("mode")
    /\ UNCHANGED <<objects, animation_data, bones, fcurves, frame_range, pose, scale_factor,
                   frame_current, armature, hips_y_offset, scaled_hips_offset, frame, ki,
                   reports, result, pre, writes>>

\* lines 56-72
ExecuteOffset ==
    /\ pc = "offset"
    /\ LET first_frame == IntFrame(frame_range[1])
           posed == FrameSetPose(fcurves, bones, pose, first_frame)
           off == HipsYOffset(bones, Find(fcurves, "hips", 1), posed["hips"], first_frame)
       IN  /\ frame_current' = first_frame
           /\ pose' = posed
           /\ hips_y_offset' = off
           /\ scaled_hips_offset' = ScaledHipsOffset(off, scale_factor)
    /\ frame' = IntFrame(frame_range[1])
    /\ pc' = NextPc("offset")
    /\ UNCHANGED <<objects, animation_data, bones, fcurves, frame_range, scale_factor,
                   mode, armature, ki, reports, result, pre, writes>>

\* line 75 false: no 'Root' pose bone
RootSkip ==
    /\ pc = "root"
    /\ "Root" \notin bones
    /\ pc' = NextPc("root")
    /\ UNCHANGED <<scene, armature, hips_y_offset, scaled_hips_offset, frame, ki,
                   reports, result, pre, writes>>

\* lines 79-85: one iteration of the loop over the frames of the range
RootFrame ==
    /\ pc = "root"
    /\ "Root" \in bones
    /\ frame <= IntFrame(frame_range[2])
    /\ LET curve == Find(fcurves, "Root", 1)
           posed == FrameSetPose(fcurves, bones, pose, frame)
       IN  /\ frame_current' = frame
           /\ IF curve.exists /\ HasKeyOn(curve, frame)
              THEN LET y == RootTranslate(posed["Root"], scale_factor, scaled_hips_offset)
                   IN  /\ pose' = [posed EXCEPT !["Root"] = y]
                       /\ fcurves' = [fcurves EXCEPT ![RootY] = KeyframeInsert(curve, TickOf(frame), y)]
                       /\ writes' = Append(writes, <<"Root", TickOf(frame)>>)
              ELSE /\ pose' = posed
                   /\ UNCHANGED <<fcurves, writes>>
    /\ frame' = frame + 1
    /\ UNCHANGED <<objects, animation_data, bones, frame_range, scale_factor, mode, pc,
                   armature, hips_y_offset, scaled_hips_offset, ki, reports, result, pre>>

\* line 79: the range is exhausted
RootDone ==
    /\ pc = "root"
    /\ "Root" \in bones
    /\ frame > IntFrame(frame_range[2])
    /\ pc' = NextPc("root")
    /\ UNCHANGED <<scene, armature, hips_y_offset, scaled_hips_offset, frame, ki,
                   reports, result, pre, writes>>

\* lines 88, 92 false: no 'hips' pose bone, or no Y-location curve
HipsSkip ==
    /\ pc = "hips"
    /\ ~("hips" \in bones /\ Find(fcurves, "hips", 1).exists)
    /\ pc' = NextPc("hips")
    /\ UNCHANGED <<scene, armature, hips_y_offset, scaled_hips_offset, frame, ki,
                   reports, result, pre, writes>>

\* lines 93-98: one iteration of the loop over the keyframe points
HipsKeyframe ==
    /\ pc = "hips"
    /\ "hips" \in bones
    /\ Find(fcurves, "hips", 1).exists
    /\ ki <= Len(Find(fcurves, "hips", 1).kps)
    /\ LET curve == Find(fcurves, "hips", 1)
           t == curve.kps[ki].co0
           v == HipsScale(curve.kps[ki].co1, scale_factor)
           scaled == FCurve([curve.kps EXCEPT ![ki] = KeyframePoint(t, v)])
           fc1 == [fcurves EXCEPT ![HipsY] = scaled]
           posed == FrameSetPose(fc1, bones, pose, IntFrame(t))
       IN  /\ frame_current' = IntFrame(t)
           /\ pose' = [posed EXCEPT !["hips"] = v]
           /\ fcurves' = [fc1 EXCEPT ![HipsY] = KeyframeInsert(scaled, t, v)]
           /\ writes' = Append(writes, <<"hips", t>>)
    /\ ki' = ki + 1
    /\ UNCHANGED <<objects, animation_data, bones, frame_range, scale_factor, mode, pc,
                   armature, hips_y_offset, scaled_hips_offset, frame, reports, result, pre>>

\* line 93: the keyframe points are exhausted
HipsDone ==
    /\ pc = "hips"
    /\ "hips" \in bones
    /\ Find(fcurves, "hips", 1).exists
    /\ ki > Len(Find(fcurves, "hips", 1).kps)
    /\ pc' = NextPc("hips")
    /\ UNCHANGED <<scene, armature, hips_y_offset, scaled_hips_offset, frame, ki,
                   reports, result, pre, writes>>

\* lines 100-101
ExecuteReport ==
    /\ pc = "report"
    /\ reports' = Append(reports, [level |-> "INFO", msg |-> "Animation adjusted",
                                   scale_factor |-> scale_factor,
                                   hips_offset |-> scaled_hips_offset])
    /\ result' = "FINISHED"
    /\ pc' = NextPc("report")
    /\ UNCHANGED <<scene, armature, hips_y_offset, scaled_hips_offset, frame, ki, pre, writes>>

Next ==
    \/ SetScaleFactor
    \/ ExecuteFind
    \/ ExecuteAnim
    \/ ExecuteMode
    \/ ExecuteOffset
    \/ RootSkip
    \/ RootFrame
    \/ RootDone
    \/ HipsSkip
    \/ HipsKeyframe
    \/ HipsDone
    \/ ExecuteReport

Spec == Init /\ [][Next]_vars

\* ------------------------------------------------------ claim vocabulary
Finished == pc = "done" /\ result = "FINISHED"

Cancelled == pc = "done" /\ result = "CANCELLED"

\* the scene holds an object of type ARMATURE named exactly '_base_'
HasBaseArmature ==
    \E i \in 1..Len(objects) : objects[i].type = "ARMATURE" /\ objects[i].name = "_base_"

\* the steps of a run that come after the hips offset has been computed
AfterOffset == pc \in {"root", "hips", "report"} \/ Finished

PreHips == pre.fcurves[HipsY]

PreRoot == pre.fcurves[RootY]

FirstFrame == IntFrame(frame_range[1])

LastFrame == IntFrame(frame_range[2])

\* a tick of a whole-number frame inside int(start)..int(end)
InRange(t) == t % 2 = 0 /\ FirstFrame <= t \div 2 /\ t \div 2 <= LastFrame

\* the number of keyframe writes the run made on bone b at tick t
WriteCount(b, t) == Cardinality({i \in 1..Len(writes) : writes[i] = <<b, t>>})

SameFrames(c) ==
    /\ fcurves[c].exists = pre.fcurves[c].exists
    /\ Len(fcurves[c].kps) = Len(pre.fcurves[c].kps)
    /\ \A i \in 1..Len(pre.fcurves[c].kps) : fcurves[c].kps[i].co0 = pre.fcurves[c].kps[i].co0

\* the value the hips Y channel had on the first frame before the run
PreHipsFirstKeys == {i \in 1..Len(PreHips.kps) : PreHips.kps[i].co0 = 2 * FirstFrame}

\* C1: a run ends with exactly one outcome and one report: CANCELLED with the
\* armature error iff the scene has no '_base_' armature, otherwise CANCELLED
\* with the animation error iff the armature has no animation data or no
\* action, otherwise FINISHED with one INFO report; nothing is reported and
\* nothing returned before the end.
C1_Outcome ==
    /\ pc # "done" => result = "" /\ reports = <<>>
    /\ pc = "done" =>
        /\ Len(reports) = 1
        /\ result \in {"CANCELLED", "FINISHED"}
        /\ ~HasBaseArmature <=>
              /\ result = "CANCELLED"
              /\ reports[1].level = "ERROR"
              /\ reports[1].msg = "No armature named '_base_' found."
        /\ HasBaseArmature =>
              (animation_data \in {"None", "NoAction"} <=>
                  /\ result = "CANCELLED"
                  /\ reports[1].level = "ERROR"
                  /\ reports[1].msg = "No animation data found.")
        /\ (HasBaseArmature /\ animation_data = "Action") =>
              result = "FINISHED" /\ reports[1].level = "INFO"

C1_Witness ==
    /\ Cancelled
    /\ HasBaseArmature
    /\ animation_data = "NoAction"
    /\ reports[1].msg = "No animation data found."

\* C2: after a FINISHED run on an armature with a 'hips' bone that has a
\* Y-location channel, the channel has the same keyframes on the same frames,
\* each with the scale factor times its old value, each written exactly once.
C2_HipsScaled ==
    (Finished /\ "hips" \in bones /\ PreHips.exists) =>
        /\ SameFrames(HipsY)
        /\ \A i \in 1..Len(PreHips.kps) :
              /\ fcurves[HipsY].kps[i].co1 = scale_factor * PreHips.kps[i].co1
              /\ WriteCount("hips", PreHips.kps[i].co0) = 1

C2_Witness ==
    /\ Finished
    /\ "hips" \in bones
    /\ Len(PreHips.kps) >= 2
    /\ scale_factor >= 2
    /\ \E i \in 1..Len(PreHips.kps) :
          PreHips.kps[i].co1 # 0 /\ PreHips.kps[i].co0 % 2 = 1

\* C3: after a FINISHED run on an armature with a 'Root' bone that has a
\* Y-location channel, every keyframe of the channel on a whole-number frame
\* of int(start)..int(end) has its old value plus s + s*o, o the inverted hips
\* offset of the run; each is written exactly once, and the channel has the
\* keyframes it had, on the frames it had them.
C3_RootTranslated ==
    (Finished /\ "Root" \in bones /\ PreRoot.exists) =>
        /\ SameFrames(RootY)
        /\ \A i \in 1..Len(PreRoot.kps) :
              InRange(PreRoot.kps[i].co0) =>
                 /\ fcurves[RootY].kps[i].co1 =
                       PreRoot.kps[i].co1 + scale_factor + scale_factor * hips_y_offset
                 /\ WriteCount("Root", PreRoot.kps[i].co0) = 1
        /\ \A i \in 1..Len(writes) :
              writes[i][1] = "Root" =>
                 \E k \in 1..Len(PreRoot.kps) : PreRoot.kps[k].co0 = writes[i][2]

C3_Witness ==
    /\ Finished
    /\ "Root" \in bones
    /\ scale_factor >= 2
    /\ hips_y_offset # 0
    /\ Cardinality({i \in 1..Len(PreRoot.kps) : InRange(PreRoot.kps[i].co0)}) >= 2

\* C4: the steps of a run are ordered: no keyframe is modified before the hips
\* offset has been computed, so the offset is the negated first-frame hips
\* value of before the run; the Root channel is written before the hips
\* channel; FINISHED is reported only after both passes are complete.
C4_Order ==
    /\ ~AfterOffset => (fcurves = pre.fcurves /\ writes = <<>>)
    /\ (AfterOffset /\ "hips" \in bones /\ PreHipsFirstKeys # {}) =>
          \E i \in PreHipsFirstKeys : hips_y_offset = -PreHips.kps[i].co1
    /\ \A i \in 1..Len(writes) : \A j \in 1..Len(writes) :
          (writes[i][1] = "hips" /\ writes[j][1] = "Root") => j < i
    /\ (pc = "report" \/ Finished) =>
          /\ "Root" \in bones => frame > LastFrame
          /\ ("hips" \in bones /\ PreHips.exists) => ki > Len(PreHips.kps)
    /\ (Finished /\ "Root" \in bones /\ "hips" \in bones /\ PreHipsFirstKeys # {}) =>
          \A k \in 1..Len(PreRoot.kps) :
             InRange(PreRoot.kps[k].co0) =>
                \E i \in PreHipsFirstKeys :
                   fcurves[RootY].kps[k].co1 =
                      PreRoot.kps[k].co1 + scale_factor - scale_factor * PreHips.kps[i].co1

C4_Witness ==
    /\ Finished
    /\ scale_factor >= 2
    /\ \E i \in PreHipsFirstKeys : PreHips.kps[i].co1 # 0
    /\ \E i \in 1..Len(writes) : writes[i][1] = "Root"
    /\ \E i \in 1..Len(writes) : writes[i][1] = "hips"

\* C5 as stated: a FINISHED run with scale factor 1 leaves every hips Y and
\* every Root Y keyframe with the value it had.
C5_NoOpAtOne ==
    (Finished /\ scale_factor = 1) =>
        /\ fcurves[HipsY] = PreHips
        /\ fcurves[RootY] = PreRoot

\* C5 amended: a FINISHED run with scale factor 1 leaves every hips Y keyframe
\* unchanged and adds 1 + o to every Root Y keyframe on a whole-number frame of
\* the range (when the armature has a 'Root' bone), leaving the other Root Y
\* keyframes unchanged; so Root Y is unchanged iff 1 + o = 0 or no keyframe is
\* visited.
C5_AtOne ==
    (Finished /\ scale_factor = 1) =>
        /\ fcurves[HipsY] = PreHips
        /\ SameFrames(RootY)
        /\ \A i \in 1..Len(PreRoot.kps) :
              fcurves[RootY].kps[i].co1 =
                 IF "Root" \in bones /\ InRange(PreRoot.kps[i].co0)
                 THEN PreRoot.kps[i].co1 + 1 + hips_y_offset
                 ELSE PreRoot.kps[i].co1
        /\ (fcurves[RootY] = PreRoot) <=>
              (hips_y_offset = -1 \/ \A i \in 1..Len(writes) : writes[i][1] # "Root")

C5_Witness ==
    /\ Finished
    /\ scale_factor = 1
    /\ hips_y_offset = 0
    /\ fcurves[RootY] # PreRoot
    /\ \E i \in 1..Len(PreHips.kps) : PreHips.kps[i].co1 # 0

C7_Frame ==
    /\ \A c \in Channels \ {RootY, HipsY} : fcurves[c] = pre.fcurves[c]
    /\ \A c \in Channels : SameFrames(c)

C7_Witness ==
    /\ Finished
    /\ fcurves[RootY] # PreRoot
    /\ fcurves[HipsY] # PreHips
    /\ \E c \in Channels \ {RootY, HipsY} : Len(fcurves[c].kps) > 0

\* C8: a CANCELLED run changes nothing: keyframes, pose, current frame, mode
\* and scale factor are as they were when the run began.
C8_CancelledUnchanged ==
    Cancelled =>
        /\ fcurves = pre.fcurves
        /\ pose = pre.pose
        /\ frame_current = pre.frame_current
        /\ mode = pre.mode
        /\ scale_factor = pre.scale_factor

C8_Witness ==
    /\ Cancelled
    /\ HasBaseArmature
    /\ mode = "OBJECT"
    /\ scale_factor >= 2

\* C9: a missing bone is no error: with an action and no 'Root' bone the run
\* is FINISHED and every hips Y keyframe is multiplied by s; with no 'hips'
\* bone it is FINISHED and exactly s is added to every Root Y keyframe on a
\* whole-number frame of the range; with neither bone it is FINISHED with no
\* keyframe changed and a reported hips offset of 0.
C9_MissingBone ==
    (pc = "done" /\ HasBaseArmature /\ animation_data = "Action") =>
        /\ result = "FINISHED"
        /\ ("Root" \notin bones /\ "hips" \in bones) =>
              /\ Len(fcurves[HipsY].kps) = Len(PreHips.kps)
              /\ \A i \in 1..Len(PreHips.kps) :
                    fcurves[HipsY].kps[i].co1 = scale_factor * PreHips.kps[i].co1
              /\ fcurves[RootY] = PreRoot
        /\ ("hips" \notin bones /\ "Root" \in bones) =>
              /\ Len(fcurves[RootY].kps) = Len(PreRoot.kps)
              /\ \A i \in 1..Len(PreRoot.kps) :
                    InRange(PreRoot.kps[i].co0) =>
                       fcurves[RootY].kps[i].co1 = PreRoot.kps[i].co1 + scale_factor
              /\ fcurves[HipsY] = PreHips
        /\ bones = {} =>
              /\ fcurves = pre.fcurves
              /\ reports[1].hips_offset = 0

C9_Witness ==
    /\ Finished
    /\ bones = {"Root"}
    /\ \E i \in PreHipsFirstKeys : PreHips.kps[i].co1 # 0
    /\ \E i \in 1..Len(writes) : writes[i][1] = "Root"
    /\ scale_factor >= 2

====
